---- MODULE Spec2Model ----
(***************************************************************************)
(* Model of src/main.py: the Renamer (rename_mp3_files), the Tagger        *)
(* (edit_mp3_tags) and the CLI menu (main) acting on one directory.        *)
(*                                                                         *)
(* A file name is a sequence of tokens.  Every token is one character,     *)
(* except Artist (the literal "조용필" of the pattern, which cannot overlap  *)
(* itself), Bar (the fullwidth bar U+FF5C), and Ext / Txt (the suffixes    *)
(* ".mp3" / ".txt", the only tokens that hold a dot).                      *)
(***************************************************************************)
EXTENDS Integers, Sequences, FiniteSets, TLC

VARIABLES
    fs,          \* the directory: original name |-> [name, tag] of each file
    dirExists,   \* does ~/Music/choyongpil exist
    cover,       \* state of the cover-art path: "ok", "missing", "unreadable"
    pc,          \* position of the program
    plan,        \* calls main has still to make
    choice,      \* main's variable choice (stripped)
    response,    \* main's variable response (stripped, lower-cased)
    todo,        \* files of mp3_files the running loop has not visited yet
    cover_data,  \* edit_mp3_tags' variable cover_data
    \* history, for the properties only
    rawChoice, rawResponse, inputsRead, calls, ret,
    renOut, tagOut, fsAtEntry, run, fsPrev, cleanPrev

vars == <<fs, dirExists, cover, pc, plan, choice, response, todo, cover_data,
          rawChoice, rawResponse, inputsRead, calls, ret,
          renOut, tagOut, fsAtEntry, run, fsPrev, cleanPrev>>

\* ------------------------------------------------------------------ bounds
MaxFiles == 2
MaxLen == 5
MaxRuns == 2

\* ------------------------------------------------------------------ tokens
Artist == "ARTIST"
Bar == "BAR"
Ext == ".mp3"
Txt == ".txt"
Delims == {"[", Bar}
DotTokens == {Ext, Txt}
Alphabet == {Artist, "-", " ", "[", Bar, "a"}

Min(S) == CHOOSE x \in S : \A y \in S : x <= y
Max(S) == CHOOSE x \in S : \A y \in S : x >= y

\* ------------------------------------------------------- string functions
IsSpace(c) == c = " "

\* number of whitespace characters of s starting at position p
WsRun(s, p) ==
    CHOOSE n \in 0..(Len(s) - p + 1) :
        /\ \A q \in p..(p + n - 1) : IsSpace(s[q])
        /\ (p + n > Len(s) \/ ~IsSpace(s[p + n]))

\* str.strip()
Strip(s) ==
    LET keep == {i \in 1..Len(s) : ~IsSpace(s[i])}
    IN  IF keep = {} THEN <<>> ELSE SubSeq(s, Min(keep), Max(keep))

LowerChar(c) ==
    CASE c = "Y" -> "y" [] c = "E" -> "e" [] c = "S" -> "s"
      [] c = "N" -> "n" [] c = "O" -> "o" [] OTHER -> c

\* str.lower()
Lower(s) == [i \in 1..Len(s) |-> LowerChar(s[i])]

NoMatch == [found |-> FALSE, group |-> <<>>]

PickEndGreedy(E) == Max(E)

\* (.+?) is lazy: of the ends at which the rest of the pattern matches,
\* the first one tried, the smallest, wins
PickEnd(E) == Min(E)

\* the pattern  조용필\s*-\s*(.+?)\s*[\[｜]  tried at position i of s
MatchAt(s, i) ==
    IF s[i] # Artist THEN NoMatch
    ELSE
    LET dashes == {j \in (i + 1)..(i + 1 + WsRun(s, i + 1)) :
                       j <= Len(s) /\ s[j] = "-"}
    IN  IF dashes = {} THEN NoMatch
        ELSE
        LET k0 == Max(dashes) + 1
            \* the rest \s*[\[｜] matches right after a group ending at ce
            RestOk(ce) == \E b \in 0..WsRun(s, ce + 1) :
                              /\ ce + 1 + b <= Len(s)
                              /\ s[ce + 1 + b] \in Delims
            Ends(cs) == {ce \in cs..Len(s) : RestOk(ce)}
            \* \s* is greedy: the longest run of whitespace first
            starts == {cs \in k0..(k0 + WsRun(s, k0)) : Ends(cs) # {}}
        IN  IF starts = {} THEN NoMatch
            ELSE LET cs == Max(starts)
                 IN  [found |-> TRUE,
                      group |-> SubSeq(s, cs, PickEnd(Ends(cs)))]

\* re.search: the match at the leftmost position that has one
Search(s) ==
    LET at == {i \in 1..Len(s) : MatchAt(s, i).found}
    IN  IF at = {} THEN NoMatch ELSE MatchAt(s, Min(at))

\* PurePath.stem: the name up to its last dot, unless that dot is the
\* first character of the name
Stem(name) ==
    LET dots == {i \in 1..Len(name) : name[i] \in DotTokens}
    IN  IF dots = {} \/ Max(dots) = 1 THEN name
        ELSE SubSeq(name, 1, Max(dots) - 1)

\* --------------------------------------------------------- the directory
GlobAll(dir) == DOMAIN dir

\* directory_path.glob("*.mp3")
Glob(dir) == {o \in DOMAIN dir :
                 /\ Len(dir[o].name) >= 1
                 /\ dir[o].name[Len(dir[o].name)] = Ext}

NeverExists(dir, name) == FALSE

\* new_path.exists()
TargetExists(dir, name) == \E p \in DOMAIN dir : dir[p].name = name

\* file_path.rename(new_path): a file already at the target is replaced
Rename(dir, o, new) ==
    [p \in DOMAIN dir \ {q \in DOMAIN dir : q # o /\ dir[q].name = new} |->
        IF p = o THEN [dir[p] EXCEPT !.name = new] ELSE dir[p]]

\* ------------------------------------------------------------- tag blocks
NoTag == [present |-> FALSE]
ArtistTag == "Cho Yong-pil"            \* "조용필"
AlbumTag == "I Sunganeul Yeongwonhi"   \* "이순간을영원히"
YearString == <<2, 0, 2, 5>>           \* "2025"
FRONT_COVER == 3
CoverBytes == "cover bytes"
cover_ext == ".jpg"

\* mime_type of edit_mp3_tags
MimeType(ext) == IF ext \in {".jpg", ".jpeg"} THEN "image/jpeg" ELSE "image/png"

\* eyed3 core.Date.parse of a year, and str() of the date
DateParse(digits) ==
    digits[1] * 1000 + digits[2] * 100 + digits[3] * 10 + digits[4]
DateStr(year) ==
    <<year \div 1000, (year \div 100) % 10, (year \div 10) % 10, year % 10>>

OldImage(d) == [picture_type |-> 0, description |-> d,
                mime_type |-> "image/png", image_data |-> "old bytes"]
OldTag(descs) ==
    [present |-> TRUE, artist |-> "old", album |-> "old", title |-> <<"o">>,
     recording_date |-> 1999,
     images |-> [i \in 1..Len(descs) |-> OldImage(descs[i])]]

\* audiofile.initTag()
InitTag == [present |-> TRUE, artist |-> "none", album |-> "none",
            title |-> <<>>, recording_date |-> 0, images |-> <<>>]

\* tag.images.remove(description): the first image with that description
ImagesRemove(images, description) ==
    LET hit == {i \in 1..Len(images) : images[i].description = description}
    IN  IF hit = {} THEN images
        ELSE SubSeq(images, 1, Min(hit) - 1)
             \o SubSeq(images, Min(hit) + 1, Len(images))

\* tag.images.set(type, data, mime, description): the first image with
\* that description is updated in place, else a new image is appended
ImagesSet(images, type, data, mime, description) ==
    LET hit == {i \in 1..Len(images) : images[i].description = description}
        img == [picture_type |-> type, description |-> description,
                mime_type |-> mime, image_data |-> data]
    IN  IF hit = {} THEN Append(images, img)
        ELSE [images EXCEPT ![Min(hit)] = img]

\* lines 54-69 of edit_mp3_tags applied to the loaded tag of a file
Tagged(tag, name, data) ==
    LET t0 == IF tag.present THEN tag ELSE InitTag
        t1 == [t0 EXCEPT !.artist = ArtistTag, !.album = AlbumTag,
                         !.title = Stem(name),
                         !.recording_date = DateParse(YearString)]
    IN  [t1 EXCEPT !.images =
            ImagesSet(ImagesRemove(t1.images, ""), FRONT_COVER, data,
                      MimeType(cover_ext), "Cover")]

\* ------------------------------------------------- directories and inputs
N1 == <<Artist, " ", "-", " ", "a", " ", "[", Ext>>
N2 == <<Artist, "-", "a", Bar, Ext>>
N3 == <<"a", Ext>>
N4 == <<Artist, " ", "-", " ", "[", "a", Ext>>
N5 == <<Artist, "-", "a", "[", Txt>>
N6 == <<Artist, "-", Artist, "-", "a", "[", "a", "[", Ext>>
MainPool == {N1, N2, N3, N4, N5}
RenamePool == {N1, N2, N3, N4, N5, N6}
TagPool == {NoTag, OldTag(<<>>), OldTag(<<"x">>), OldTag(<<"", "">>)}
CoverStates == {"ok", "missing", "unreadable"}
TagOutcomes == {"ok", "none", "load_raises", "set_raises", "save_raises"}

ChoiceInputs == {<<"1">>, <<"2">>, <<" ", "3", " ">>, <<"4">>, <<"5">>, <<>>}
ResponseInputs == {<<"y">>, <<" ", "Y", "E", "S">>, <<"n", "o">>, <<>>,
                   <<"y", "e", "s", "s">>}

AllNames == {stem \o <<Ext>> :
                stem \in UNION {[1..k -> Alphabet] : k \in 0..MaxLen}}
Dirs(pool) == {S \in SUBSET pool : Cardinality(S) <= MaxFiles}
NewDir(S, tags) == [o \in S |-> [name |-> o, tag |-> tags[o]]]
None(dir) == [o \in DOMAIN dir |-> "none"]

\* ---------------------------------------------------------- initial states
InitRest ==
    /\ plan = <<>> /\ choice = <<>> /\ response = <<>>
    /\ todo = {} /\ cover_data = "none"
    /\ rawChoice = <<>> /\ rawResponse = <<>> /\ inputsRead = 0
    /\ calls = <<>> /\ ret = "none"
    /\ renOut = None(fs) /\ tagOut = None(fs)
    /\ fsAtEntry = fs /\ run = 1 /\ fsPrev = fs /\ cleanPrev = FALSE

\* the program is started on some directory
Init ==
    /\ dirExists \in BOOLEAN
    /\ cover \in CoverStates
    /\ \E S \in Dirs(MainPool) : \E tags \in [S -> TagPool] :
          /\ fs = NewDir(S, tags)
          /\ dirExists \/ S = {}
    /\ pc = "choice"
    /\ InitRest

\* rename_mp3_files is called on some directory
InitRename ==
    /\ dirExists \in BOOLEAN
    /\ cover = "ok"
    /\ \E S \in Dirs(RenamePool) \cup {{n} : n \in AllNames} :
          /\ fs = NewDir(S, [o \in S |-> NoTag])
          /\ dirExists \/ S = {}
    /\ pc = "ren_entry"
    /\ InitRest

\* ------------------------------------------------------ rename_mp3_files
\* lines 92-105: the checks before the loop
RenEntry ==
    /\ pc = "ren_entry"
    /\ calls' = Append(calls, "rename")
    /\ fsAtEntry' = fs
    /\ renOut' = None(fs)
    /\ IF ~dirExists
       THEN /\ ret' = "no_dir" /\ pc' = "return" /\ todo' = {}
       ELSE IF Glob(fs) = {}
       THEN /\ ret' = "no_files" /\ pc' = "return" /\ todo' = {}
       ELSE /\ ret' = "running" /\ pc' = "ren_loop" /\ todo' = Glob(fs)
    /\ UNCHANGED <<fs, dirExists, cover, plan, choice, response, cover_data,
                   rawChoice, rawResponse, inputsRead, tagOut, run, fsPrev,
                   cleanPrev>>

\* lines 107-131: one iteration of the loop, on any file not yet visited
\* (the order of a glob is the file system's)
RenFile ==
    /\ pc = "ren_loop"
    /\ \E o \in todo :
          /\ todo' = todo \ {o}
          /\ IF o \notin DOMAIN fs
             THEN /\ renOut' = [renOut EXCEPT ![o] = "error"]
                  /\ fs' = fs
             ELSE
             LET old_name == fs[o].name
                 match == Search(old_name)
                 title == Strip(match.group)
                 new_name == title \o <<Ext>>
             IN  IF match.found
                 THEN IF TargetExists(fs, new_name)
                      THEN /\ renOut' = [renOut EXCEPT ![o] = "skip"]
                           /\ fs' = fs
                      ELSE \/ /\ fs' = Rename(fs, o, new_name)
                              /\ renOut' = [renOut EXCEPT ![o] = "renamed"]
                           \/ /\ fs' = fs    \* rename raised
                              /\ renOut' = [renOut EXCEPT ![o] = "error"]
                 ELSE /\ renOut' = [renOut EXCEPT ![o] = "nomatch"]
                      /\ fs' = fs
    /\ pc' = IF todo' = {} THEN "return" ELSE "ren_loop"
    /\ ret' = IF todo' = {} THEN "completed" ELSE ret
    /\ UNCHANGED <<dirExists, cover, plan, choice, response, cover_data,
                   rawChoice, rawResponse, inputsRead, calls, tagOut,
                   fsAtEntry, run, fsPrev, cleanPrev>>

\* --------------------------------------------------------- edit_mp3_tags
\* lines 17-43: the checks before the loop and the read of the cover art
TagEntry ==
    /\ pc = "tag_entry"
    /\ calls' = Append(calls, "tag")
    /\ fsAtEntry' = fs
    /\ tagOut' = None(fs)
    /\ IF ~dirExists
       THEN /\ ret' = "no_dir" /\ pc' = "return"
            /\ UNCHANGED <<todo, cover_data>>
       ELSE IF cover = "missing"
       THEN /\ ret' = "no_cover" /\ pc' = "return"
            /\ UNCHANGED <<todo, cover_data>>
       ELSE IF Glob(fs) = {}
       THEN /\ ret' = "no_files" /\ pc' = "return"
            /\ UNCHANGED <<todo, cover_data>>
       ELSE IF cover = "ok"
       THEN /\ ret' = "running" /\ pc' = "tag_loop"
            /\ todo' = Glob(fs) /\ cover_data' = CoverBytes
       ELSE \* open() raises outside any try: the exception leaves main
            /\ ret' = "raised" /\ pc' = "crashed"
            /\ UNCHANGED <<todo, cover_data>>
    /\ UNCHANGED <<fs, dirExists, cover, plan, choice, response,
                   rawChoice, rawResponse, inputsRead, renOut, run, fsPrev,
                   cleanPrev>>

AbortBatch(rest, o) == {}

\* the files still to visit after the iteration on o ended in `continue`
\* or in the except clause
AfterFailure(rest, o) == rest \ {o}

\* lines 45-81: one iteration of the loop
TagFile ==
    /\ pc = "tag_loop"
    /\ \E o \in todo : \E outcome \in TagOutcomes :
          IF outcome = "ok"
          THEN /\ fs' = [fs EXCEPT ![o].tag =
                            Tagged(fs[o].tag, fs[o].name, cover_data)]
               /\ tagOut' = [tagOut EXCEPT ![o] = "tagged"]
               /\ todo' = todo \ {o}
          ELSE /\ fs' = fs
               /\ tagOut' = [tagOut EXCEPT ![o] =
                                IF outcome = "none" THEN "noload" ELSE "error"]
               /\ todo' = AfterFailure(todo, o)
    /\ pc' = IF todo' = {} THEN "return" ELSE "tag_loop"
    /\ ret' = IF todo' = {} THEN "completed" ELSE ret
    /\ UNCHANGED <<dirExists, cover, plan, choice, response, cover_data,
                   rawChoice, rawResponse, inputsRead, calls, renOut,
                   fsAtEntry, run, fsPrev, cleanPrev>>

\* ------------------------------------------------------------------ main
PlanTagFirst(c) ==
    IF c = <<"1">> THEN <<"rename">>
    ELSE IF c = <<"2">> THEN <<"tag">>
    ELSE IF c = <<"3">> THEN <<"tag", "rename">>
    ELSE <<>>

\* the calls main makes for a confirmed choice (lines 154, 162, 171-173)
Plan(c) ==
    IF c = <<"1">> THEN <<"rename">>
    ELSE IF c = <<"2">> THEN <<"tag">>
    ELSE IF c = <<"3">> THEN <<"rename", "tag">>
    ELSE <<>>

AnyResponse(r) == TRUE

\* response in ['yes', 'y']
Confirmed(r) == r \in {<<"y", "e", "s">>, <<"y">>}

\* line 149 and the branch on choice
ReadChoice ==
    /\ pc = "choice"
    /\ \E line \in ChoiceInputs :
          /\ rawChoice' = line
          /\ choice' = Strip(line)
          /\ pc' = IF Strip(line) \in {<<"1">>, <<"2">>, <<"3">>}
                   THEN "confirm" ELSE "done"
    /\ inputsRead' = inputsRead + 1
    /\ UNCHANGED <<fs, dirExists, cover, plan, response, todo, cover_data,
                   rawResponse, calls, ret, renOut, tagOut, fsAtEntry, run,
                   fsPrev, cleanPrev>>

\* lines 152-153, 160-161, 168-169
ReadResponse ==
    /\ pc = "confirm"
    /\ \E line \in ResponseInputs :
          /\ rawResponse' = line
          /\ response' = Lower(Strip(line))
          /\ IF Confirmed(Lower(Strip(line)))
             THEN /\ plan' = Plan(choice) /\ pc' = "call"
             ELSE /\ plan' = plan /\ pc' = "done"
    /\ inputsRead' = inputsRead + 1
    /\ UNCHANGED <<fs, dirExists, cover, choice, todo, cover_data,
                   rawChoice, calls, ret, renOut, tagOut, fsAtEntry, run,
                   fsPrev, cleanPrev>>

\* main calls the next function of the branch, or ends
MainCall ==
    /\ pc \in {"call", "return"}
    /\ IF plan = <<>>
       THEN pc' = "done" /\ plan' = plan
       ELSE /\ pc' = IF Head(plan) = "rename" THEN "ren_entry" ELSE "tag_entry"
            /\ plan' = Tail(plan)
    /\ UNCHANGED <<fs, dirExists, cover, choice, response, todo, cover_data,
                   rawChoice, rawResponse, inputsRead, calls, ret, renOut,
                   tagOut, fsAtEntry, run, fsPrev, cleanPrev>>

Next == ReadChoice \/ ReadResponse \/ MainCall \/ RenEntry \/ RenFile
        \/ TagEntry \/ TagFile

Spec == Init /\ [][Next]_vars

\* --------------------------- rename_mp3_files called again on its result
Rerun ==
    /\ pc = "return"
    /\ run < MaxRuns
    /\ run' = run + 1
    /\ fsPrev' = fs
    /\ cleanPrev' = (ret = "completed"
                     /\ \A o \in DOMAIN renOut : renOut[o] \notin {"skip", "error"})
    /\ renOut' = None(fs)
    /\ pc' = "ren_entry"
    /\ UNCHANGED <<fs, dirExists, cover, plan, choice, response, todo,
                   cover_data, rawChoice, rawResponse, inputsRead, calls, ret,
                   tagOut, fsAtEntry>>

NextRename == RenEntry \/ RenFile \/ Rerun

SpecRename == InitRename /\ [][NextRename]_vars

TypeOK ==
    /\ pc \in {"choice", "confirm", "call", "ren_entry", "ren_loop",
               "tag_entry", "tag_loop", "return", "done", "crashed"}
    /\ todo \subseteq DOMAIN renOut
    /\ run \in 1..MaxRuns

\* ------------------------------------------------------------ properties
IsMp3(name) == Len(name) >= 1 /\ name[Len(name)] = Ext
LastCall == IF calls = <<>> THEN "none" ELSE calls[Len(calls)]
Failed == {"noload", "error"}

\* the titles X for which name reads  조용필 - X [...  or  조용필 - X｜... :
\* the artist, whitespace, a hyphen, then a non-empty stretch free of "["
\* and "｜" that holds a character other than whitespace and that a "[" or
\* "｜" ends; X is that stretch without the whitespace around it
Titles(name) ==
    {Strip(SubSeq(name, j + 1, d - 1)) :
        <<j, d>> \in {jd \in (2..Len(name)) \X (2..Len(name)) :
            /\ name[1] = Artist
            /\ \A q \in 2..(jd[1] - 1) : name[q] = " "
            /\ name[jd[1]] = "-"
            /\ jd[2] > jd[1] + 1
            /\ name[jd[2]] \in Delims
            /\ \A q \in (jd[1] + 1)..(jd[2] - 1) : name[q] \notin Delims
            /\ \E q \in (jd[1] + 1)..(jd[2] - 1) : name[q] # " "}}

\* C1: a rename is performed only when no file is at the target path: no
\* step of rename_mp3_files makes a file disappear, a file only takes a
\* name no file had, and a step that finds a collision changes nothing.
C1_NoOverwrite ==
    [][ /\ DOMAIN fs' = DOMAIN fs
        /\ \A o \in DOMAIN fs :
              /\ fs'[o].name # fs[o].name =>
                    ~\E p \in DOMAIN fs : fs[p].name = fs'[o].name
              /\ fs'[o].tag = fs[o].tag
        /\ \A o \in DOMAIN renOut :
              (renOut'[o] = "skip" /\ renOut[o] # "skip") => fs' = fs
      ]_vars

\* two files yield the same title: the first was renamed, the second skipped
C1_Witness ==
    /\ pc = "return" /\ run = 1
    /\ \E o \in DOMAIN fs : \E p \in DOMAIN fs :
          /\ o # p
          /\ renOut[o] = "skip" /\ fs[o].name = o
          /\ renOut[p] = "renamed"
          /\ Titles(o) = Titles(p) /\ Titles(o) # {}

\* C2 as stated: a file named  조용필 - X [...  or  조용필 - X｜...  is renamed
\* to X.mp3 whenever no file is at X.mp3 when it is processed.
C2_Original ==
    [][ \A o \in todo \ todo' : \A X \in Titles(fs[o].name) :
           (~\E p \in DOMAIN fs : fs[p].name = X \o <<Ext>>)
              => fs'[o].name = X \o <<Ext>>
      ]_vars

\* C2 amended: for a file named  조용필 - X [...  or  조용필 - X｜... :
\* the target the Renamer computes is X.mp3; on a collision the file is
\* skipped, and otherwise it is renamed to X.mp3 unless the rename raises.
C2_Extracts ==
    [][ \A o \in todo \ todo' : \A X \in Titles(fs[o].name) :
           IF \E p \in DOMAIN fs : fs[p].name = X \o <<Ext>>
           THEN renOut'[o] = "skip" /\ fs' = fs
           ELSE \/ /\ renOut'[o] = "renamed"
                   /\ fs' = [fs EXCEPT ![o].name = X \o <<Ext>>]
                \/ /\ renOut'[o] = "error"
                   /\ fs' = fs
      ]_vars

\* a name with whitespace around the title was renamed to the bare title
C2_Witness ==
    /\ run = 1
    /\ \E o \in DOMAIN fs :
          /\ renOut[o] = "renamed"
          /\ o = N1 /\ Titles(o) = {<<"a">>}
          /\ fs[o].name = <<"a", Ext>>

\* C3: after a successful tagging the file holds exactly one image, the
\* new front cover described "Cover".
C3_OneImage ==
    \A o \in DOMAIN fs :
        tagOut[o] = "tagged" =>
            /\ Len(fs[o].tag.images) = 1
            /\ fs[o].tag.images[1].description = "Cover"
            /\ fs[o].tag.images[1].picture_type = FRONT_COVER

\* C4: when the Tagger's loop has run, every file of the listing that did
\* not itself fail carries the fixed values, whatever failed before or
\* after it, and a file that failed is as it was.
C4_Isolated ==
    (LastCall = "tag" /\ ret = "completed") =>
        \A o \in DOMAIN fsAtEntry :
            IF IsMp3(fsAtEntry[o].name)
            THEN \/ /\ tagOut[o] \in Failed
                    /\ fs[o] = fsAtEntry[o]
                 \/ /\ tagOut[o] = "tagged"
                    /\ fs[o].tag.present
                    /\ fs[o].tag.artist = ArtistTag
                    /\ fs[o].tag.album = AlbumTag
                    /\ fs[o].tag.recording_date = 2025
            ELSE fs[o] = fsAtEntry[o]

\* one file failed and another one was tagged
C4_Witness ==
    /\ LastCall = "tag" /\ ret = "completed" /\ pc = "done"
    /\ \E o \in DOMAIN fs : \E p \in DOMAIN fs :
          tagOut[o] \in Failed /\ tagOut[p] = "tagged"

\* C5: for choice 3 the Tagger starts only when the Renamer has visited
\* every file, and a title it writes is the stem of the file's name after
\* the renaming, not of the name it had before.
C5_RenameFirst ==
    choice = <<"3">> =>
        /\ LastCall = "tag" =>
              /\ calls = <<"rename", "tag">>
              /\ \A o \in DOMAIN fs : IsMp3(o) => renOut[o] # "none"
        /\ \A o \in DOMAIN fs :
              tagOut[o] = "tagged" =>
                 /\ fs[o].tag.title = Stem(fs[o].name)
                 /\ renOut[o] = "renamed" => fs[o].tag.title # Stem(o)

\* choice 3 ended with a file both renamed and tagged
C5_Witness ==
    /\ choice = <<"3">> /\ pc = "done"
    /\ \E o \in DOMAIN fs :
          renOut[o] = "renamed" /\ tagOut[o] = "tagged" /\ fs[o].name # o

\* C6: a call whose precondition fails (no directory, for the Tagger no
\* cover art, no .mp3 file) changes no file name and no tag block, and
\* returns.
C6_NoEffect ==
    /\ (LastCall = "rename"
        /\ (~dirExists \/ \A o \in DOMAIN fsAtEntry : ~IsMp3(fsAtEntry[o].name)))
          => (fs = fsAtEntry /\ pc # "ren_loop")
    /\ (LastCall = "tag"
        /\ (~dirExists \/ cover = "missing"
            \/ \A o \in DOMAIN fsAtEntry : ~IsMp3(fsAtEntry[o].name)))
          => (fs = fsAtEntry /\ pc \notin {"tag_loop", "crashed"})

\* the Tagger returned for a missing cover art, in a directory with .mp3 files
C6_Witness ==
    /\ LastCall = "tag" /\ cover = "missing" /\ pc = "done"
    /\ \E o \in DOMAIN fs : IsMp3(fs[o].name)

\* C7: a function is called only after a choice of 1, 2 or 3 and a
\* confirmation of yes or y in any case and with any whitespace around it;
\* otherwise the program ends with no call, having read one line (choice 4,
\* invalid choice) or two (no confirmation), and never more than two.
C7_Confirmed ==
    LET goodChoice == rawChoice \in {<<"1">>, <<"2">>, <<" ", "3", " ">>}
        yes == rawResponse \in {<<"y">>, <<" ", "Y", "E", "S">>}
    IN  /\ inputsRead <= 2
        /\ calls # <<>> => (goodChoice /\ yes)
        /\ (pc = "done" /\ ~goodChoice) => (inputsRead = 1 /\ calls = <<>>)
        /\ (pc = "done" /\ goodChoice /\ ~yes) =>
              (inputsRead = 2 /\ calls = <<>>)
        /\ (pc = "done" /\ goodChoice /\ yes) => calls # <<>>

\* the confirmation was refused and the program ended
C7_Witness ==
    /\ pc = "done" /\ rawChoice = <<"1">> /\ rawResponse = <<"n", "o">>
    /\ calls = <<>> /\ inputsRead = 2

\* C8: no failure inside rename_mp3_files or edit_mp3_tags leaves the
\* function as an exception.
C8_NoEscalation == pc # "crashed"

\* C9: after a successful tagging the title is the file's name without
\* ".mp3", artist and album are the fixed strings and the year reads "2025".
C9_FixedTags ==
    \A o \in DOMAIN fs :
        tagOut[o] = "tagged" =>
            /\ fs[o].tag.title = SubSeq(fs[o].name, 1, Len(fs[o].name) - 1)
            /\ fs[o].tag.artist = ArtistTag
            /\ fs[o].tag.album = AlbumTag
            /\ DateStr(fs[o].tag.recording_date) = <<2, 0, 2, 5>>

\* C10: a name produced by a rename does not match the pattern, and a run
\* of the Renamer right after a run without collision or rename error
\* renames nothing and leaves the directory as it was.
C10_Idempotent ==
    /\ \A o \in DOMAIN fs :
          renOut[o] = "renamed" => ~Search(fs[o].name).found
    /\ (run >= 2 /\ cleanPrev) =>
          /\ fs = fsPrev
          /\ \A o \in DOMAIN renOut : renOut[o] # "renamed"

\* a second run ended after a first run that renamed a file
C10_Witness ==
    /\ run = 2 /\ cleanPrev /\ pc = "return" /\ ret = "completed"
    /\ \E o \in DOMAIN fs : fs[o].name # o
====
